---- MODULE Spec2Model ----
(***************************************************************************)
(* Segment pushing: the shift calculator (calculateSegmentShift), the      *)
(* smoothing step and the tick loop of the two programs of the repository: *)
(*   "range" : src/unnamed/part_000 (detection-range gate, margin 30,      *)
(*             minimum length 20, smoothing factor 0.15f)                  *)
(*   "basic" : src/main.cc (no detection range, margin 25, minimum length  *)
(*             10, smoothing factor 0.2f)                                  *)
(*                                                                         *)
(* Numbers.  Coordinates, lengths, margins and the calculator's result are *)
(* whole pixels; on whole pixels and axis-aligned segments every double    *)
(* operation of the calculator is exact.  The smoothed shift is a double   *)
(* that is not a whole pixel: it is held on a grid of 1/Scale pixel, and   *)
(* the product with the smoothing factor is rounded to the nearest grid    *)
(* point, as a double rounds to its nearest representable value.           *)
(***************************************************************************)
EXTENDS Integers, Sequences, FiniteSets, TLC

VARIABLES
    prog,               \* which program runs: "range" or "basic"
    pc,                 \* position in the loop body: "input", "calc", "smooth"
    segLength,          \* main: double segLength
    seg,                \* main: Segment currentIdeal (the calculator's seg)
    staticObstacles,    \* main: staticObstacles
    mousePolyTemplate,  \* part_000: mousePolyTemplate; main.cc: the shape drawn for mousePoly
    mousePoly,          \* part_000: currentMousePoly; main.cc: static mousePoly
    mouseInit,          \* main.cc: the function-local statics are initialised
    lastMouse,          \* main.cc: static lastMouse
    allWorld,           \* main: allWorld (the calculator's allPolys)
    margin,             \* main: margin
    detectionRange,     \* part_000 main: detectionRange
    targetShift,        \* main: targetShift, the calculator's return value
    currentShift,       \* main: currentShift, in units of 1/Scale pixel
    ticks               \* number of smoothing steps taken (counted in SpecSmooth only)

vars == <<prog, pc, segLength, seg, staticObstacles, mousePolyTemplate, mousePoly,
          mouseInit, lastMouse, allWorld, margin, detectionRange, targetShift,
          currentShift, ticks>>

-----------------------------------------------------------------------------
(* Bounds of the model *)

\* grid points per pixel of the smoothed shift
Scale == 8
\* at most this many vertices in the obstacle lists handed to the calculator
MaxVerts == 2
\* the keys move the length at most this many steps away from 300 in Spec
KeySteps == 1
\* the UP key is not held beyond 300 + 2 * MaxUpSteps in SpecKeys
MaxUpSteps == 3
\* SpecSmooth: largest constant target (pixels), and the number of ticks run
MaxTarget == 12
MaxTicks == 40
\* SpecSmooth: after this many ticks the sequence has stopped
SettleTicks == 30

-----------------------------------------------------------------------------
(* Geometry primitives *)

Vec2(x, y) == [x |-> x, y |-> y]

VAdd(a, b) == Vec2(a.x + b.x, a.y + b.y)

VSub(a, b) == Vec2(a.x - b.x, a.y - b.y)

VScale(a, s) == Vec2(a.x * s, a.y * s)

Dot(a, b) == a.x * b.x + a.y * b.y

Segment(start, end, heading) == [start |-> start, end |-> end, heading |-> heading]

RECURSIVE SqrtBetween(_, _, _)
\* the r in lo..hi with r*r <= n < (r+1)*(r+1)
SqrtBetween(n, lo, hi) ==
    IF lo >= hi THEN lo
    ELSE LET mid == (lo + hi + 1) \div 2
         IN IF mid * mid <= n THEN SqrtBetween(n, mid, hi)
            ELSE SqrtBetween(n, lo, mid - 1)

\* std::sqrt on the squared length of an axis-aligned whole-pixel segment (exact)
Sqrt(n) == SqrtBetween(n, 0, IF n < 46340 THEN n ELSE 46340)

\* Segment::length
SegLen(s) ==
    LET d == VSub(s.end, s.start)
    IN Sqrt(d.x * d.x + d.y * d.y)

\* Segment::getDir; on whole pixels len > 1e-6 is len > 0, and the division is
\* exact for the axis-aligned segments of the model
GetDir(s) ==
    LET d == VSub(s.end, s.start)
        len == Sqrt(d.x * d.x + d.y * d.y)
    IN IF len > 0 THEN Vec2(d.x \div len, d.y \div len) ELSE Vec2(0, 0)

Max(a, b) == IF a >= b THEN a ELSE b

-----------------------------------------------------------------------------
(* Shift calculator *)

\* faulty variant: the upper end of the span is excluded
InSpanStrictEnd(projLen, segLen) == projLen >= 0 /\ projLen < segLen

\* the longitudinal gate
InSpan(projLen, segLen) == projLen >= 0 /\ projLen <= segLen

\* faulty variant: the window starts at the ideal line instead of one margin behind it
InWindowFromZero(dist, mg, range) == dist < range /\ dist > 0

\* faulty variant: no far end of the window
InWindowNoRange(dist, mg, range) == dist > -mg

\* the detection-window gate
InWindow(dist, mg, range) == dist < range /\ dist > -mg

\* faulty variant: the margin is subtracted
PushMinusMargin(dist, mg) == dist - mg

\* the push that clears one vertex
Push(dist, mg) == dist + mg

\* faulty variant: the comparison is reversed, the running value never grows
KeepSmaller(currentPush, maxShift) ==
    IF currentPush < maxShift THEN currentPush ELSE maxShift

\* faulty variant: the candidates are added up
KeepSum(currentPush, maxShift) == maxShift + currentPush

\* if (currentPush > maxShift) maxShift = currentPush;
KeepMax(currentPush, maxShift) ==
    IF currentPush > maxShift THEN currentPush ELSE maxShift

\* the body of the inner loop for vertex v, part_000
VisitRange(s, v, mg, range, maxShift) ==
    LET vToStart == VSub(v, s.start)
        projLen == Dot(vToStart, GetDir(s))
    IN IF InSpan(projLen, SegLen(s))
       THEN LET dist == Dot(vToStart, s.heading)
            IN IF InWindow(dist, mg, range)
               THEN KeepMax(Push(dist, mg), maxShift)
               ELSE maxShift
       ELSE maxShift

\* the body of the inner loop for vertex v, main.cc
VisitBasic(s, v, mg, maxShift) ==
    LET vToStart == VSub(v, s.start)
        projLen == Dot(vToStart, GetDir(s))
    IN IF InSpan(projLen, SegLen(s))
       THEN KeepMax(Push(Dot(vToStart, s.heading), mg), maxShift)
       ELSE maxShift

RECURSIVE Flatten(_)
\* the vertices in the order the two nested loops visit them
Flatten(polys) ==
    IF polys = <<>> THEN <<>> ELSE Head(polys) \o Flatten(Tail(polys))

RECURSIVE ScanRange(_, _, _, _, _)
ScanRange(s, vs, mg, range, maxShift) ==
    IF vs = <<>> THEN maxShift
    ELSE ScanRange(s, Tail(vs), mg, range, VisitRange(s, Head(vs), mg, range, maxShift))

RECURSIVE ScanBasic(_, _, _, _)
ScanBasic(s, vs, mg, maxShift) ==
    IF vs = <<>> THEN maxShift
    ELSE ScanBasic(s, Tail(vs), mg, VisitBasic(s, Head(vs), mg, maxShift))

\* part_000: calculateSegmentShift(seg, allPolys, margin, detectionRange)
calculateSegmentShift(s, allPolys, mg, range) ==
    ScanRange(s, Flatten(allPolys), mg, range, 0)

\* main.cc: calculateSegmentShift(seg, allPolys, margin)
calculateSegmentShiftBasic(s, allPolys, mg) ==
    ScanBasic(s, Flatten(allPolys), mg, 0)

-----------------------------------------------------------------------------
(* Program constants *)

\* part_000: double segLength = 300.0 (the same in main.cc)
SegLength0 == 300
\* segLength += 2.0, segLength - 2.0
KeyStep == 2
\* part_000: std::max(20.0, ...)
MinLenRange == 20
\* main.cc: std::max(10.0, ...)
MinLenBasic == 10
\* part_000: double margin = 30.0
MarginRange == 30
\* main.cc: double margin = 25.0
MarginBasic == 25
\* part_000: double detectionRange = 600.0
DetectionRange == 600

Progs == {"range", "basic"}

MinLength(p) == IF p = "range" THEN MinLenRange ELSE MinLenBasic

MarginOf(p) == IF p = "range" THEN MarginRange ELSE MarginBasic

\* Vec2 idealBasePos
IdealBasePos(p) == IF p = "range" THEN Vec2(300, 150) ELSE Vec2(250, 150)

\* Vec2 heading = {1, 0}
Heading == Vec2(1, 0)

\* the smoothing factor in hundredths: 0.15f (part_000), 0.2f (main.cc)
AlphaPercent(p) == IF p = "range" THEN 15 ELSE 20

-----------------------------------------------------------------------------
(* Smoothing step *)

\* n/d rounded to the nearest integer.  A tie goes away from zero: the float
\* literals 0.15f and 0.2f are slightly above 15/100 and 20/100, so a product
\* that is a tie with the decimal factor lies just beyond it with the float.
RoundDiv(n, d) ==
    IF n >= 0 THEN (2 * n + d) \div (2 * d)
    ELSE -((2 * (-n) + d) \div (2 * d))

\* faulty variant: the current value is not subtracted from the target
AdvanceNoDiff(cur, target, p) ==
    cur + RoundDiv((target * Scale) * AlphaPercent(p), 100)

\* currentShift += (targetShift - currentShift) * alpha; cur is in 1/Scale
\* pixel, target in pixels
advance(cur, target, p) ==
    cur + RoundDiv((target * Scale - cur) * AlphaPercent(p), 100)

-----------------------------------------------------------------------------
(* Obstacles *)

\* the directions of the vertices of a polygon of four sides: (cos, sin) of
\* i * 2 * PI / 4, which are whole numbers
Compass == <<Vec2(1, 0), Vec2(0, 1), Vec2(-1, 0), Vec2(0, -1)>>

\* CreateComplexPoly(center, sides, avgRadius) for sides = 4; radii[i] is the
\* radius r that GetRandomValue gave vertex i
CreateComplexPoly(center, radii) ==
    [i \in 1..Len(radii) |-> VAdd(center, VScale(Compass[i], radii[i]))]

\* every vertex of poly moved by d
Translate(poly, d) == [i \in 1..Len(poly) |-> VAdd(poly[i], d)]

\* the radii GetRandomValue may give the two static polygons, within
\* avgRadius * [0.6, 1.4] (part_000) and avgRadius * [0.5, 1.5] (main.cc)
StaticRadii(p) ==
    IF p = "range"
    THEN {<< <<24, 40, 40, 40>>, <<55, 55, 55, 50>> >>,
          << <<50, 40, 40, 40>>, <<55, 55, 55, 50>> >>}
    ELSE {<< <<20, 40, 40, 40>>, <<30, 50, 50, 50>> >>}

\* the centres of the two static polygons
StaticCentres(p) ==
    IF p = "range" THEN <<Vec2(250, 200), Vec2(280, 500)>>
    ELSE <<Vec2(220, 200), Vec2(240, 450)>>

\* staticObstacles after the two push_back
StaticChoices(p) ==
    {<<CreateComplexPoly(StaticCentres(p)[1], rr[1]),
       CreateComplexPoly(StaticCentres(p)[2], rr[2])>> : rr \in StaticRadii(p)}

\* the shape of the mouse polygon: CreateComplexPoly({0, 0}, .., 60)
MouseShapes == {CreateComplexPoly(Vec2(0, 0), <<60, 60, 60, 60>>)}

\* where the mouse rests: in part_000 the nearest vertex of the mouse polygon is
\* then exactly detectionRange ahead of the ideal line, in main.cc the polygon
\* is behind the line
MouseHome(p) == IF p = "range" THEN Vec2(960, 300) ELSE Vec2(100, 300)

\* the positions GetMousePosition returns
MousePositions(p) ==
    IF p = "range" THEN {MouseHome(p), Vec2(250, 300)}
    ELSE {MouseHome(p), Vec2(200, 300)}

-----------------------------------------------------------------------------
(* The tick loop *)

\* faulty variant: the length is not clamped
StepDownNoClamp(len, p) == len - KeyStep

\* segLength = std::max(minimum, segLength - 2.0)
StepDown(len, p) == Max(MinLength(p), len - KeyStep)

\* the length after the two key tests of one tick
KeyedLength(len, up, down, p) ==
    LET len1 == IF up THEN len + KeyStep ELSE len
    IN IF down THEN StepDown(len1, p) ELSE len1

\* Segment currentIdeal = { idealBasePos, {x, y + segLength}, heading }
IdealSegment(p, len) ==
    Segment(IdealBasePos(p), VAdd(IdealBasePos(p), Vec2(0, len)), Heading)

\* faulty variant: the template itself is moved to the mouse
MouseStepInPlace(template, m) ==
    [template |-> Translate(template, m), poly |-> Translate(template, m)]

\* part_000: currentMousePoly is a copy of the template moved by m; the
\* template is read only
MouseStepRange(template, m) ==
    [template |-> template, poly |-> Translate(template, m)]

\* main.cc: the statics mousePoly and lastMouse are initialised from the first
\* mouse position, then every vertex is moved by m - lastMouse
MouseStepBasic(shape, poly, inited, last, m) ==
    LET poly0 == IF inited THEN poly ELSE Translate(shape, m)
        last0 == IF inited THEN last ELSE m
    IN Translate(poly0, VSub(m, last0))

\* the loop body up to the call of the calculator: the keys, the ideal segment,
\* the mouse polygon, allWorld
Input(up, down, m) ==
    /\ pc = "input"
    /\ segLength' = KeyedLength(segLength, up, down, prog)
    /\ seg' = IdealSegment(prog, segLength')
    /\ IF prog = "range"
       THEN /\ mousePolyTemplate' = MouseStepRange(mousePolyTemplate, m).template
            /\ mousePoly' = MouseStepRange(mousePolyTemplate, m).poly
            /\ UNCHANGED <<mouseInit, lastMouse>>
       ELSE /\ mousePoly' = MouseStepBasic(mousePolyTemplate, mousePoly, mouseInit, lastMouse, m)
            /\ mouseInit' = TRUE
            /\ lastMouse' = m
            /\ UNCHANGED mousePolyTemplate
    /\ allWorld' = Append(staticObstacles, mousePoly')
    /\ pc' = "calc"
    /\ UNCHANGED <<prog, staticObstacles, margin, detectionRange, targetShift,
                   currentShift, ticks>>

\* double targetShift = calculateSegmentShift(currentIdeal, allWorld, margin, ...)
Calc ==
    /\ pc = "calc"
    /\ targetShift' = IF prog = "range"
                      THEN calculateSegmentShift(seg, allWorld, margin, detectionRange)
                      ELSE calculateSegmentShiftBasic(seg, allWorld, margin)
    /\ pc' = "smooth"
    /\ UNCHANGED <<prog, segLength, seg, staticObstacles, mousePolyTemplate, mousePoly,
                   mouseInit, lastMouse, allWorld, margin, detectionRange,
                   currentShift, ticks>>

\* currentShift += (targetShift - currentShift) * alpha, then the next frame
Smooth ==
    /\ pc = "smooth"
    /\ currentShift' = advance(currentShift, targetShift, prog)
    /\ pc' = "input"
    /\ UNCHANGED <<prog, segLength, seg, staticObstacles, mousePolyTemplate, mousePoly,
                   mouseInit, lastMouse, allWorld, margin, detectionRange,
                   targetShift, ticks>>

\* the state of main before the first frame
Init ==
    /\ prog \in Progs
    /\ pc = "input"
    /\ segLength = SegLength0
    /\ seg = IdealSegment(prog, SegLength0)
    /\ staticObstacles \in StaticChoices(prog)
    /\ mousePolyTemplate \in MouseShapes
    /\ mousePoly = <<>>
    /\ mouseInit = FALSE
    /\ lastMouse = Vec2(0, 0)
    /\ allWorld = <<>>
    /\ margin = MarginOf(prog)
    /\ detectionRange = IF prog = "range" THEN DetectionRange ELSE 0
    /\ targetShift = 0
    /\ currentShift = 0
    /\ ticks = 0

\* the keys held in a frame leave the length within KeySteps steps of 300
NearStart(up, down) ==
    LET len == KeyedLength(segLength, up, down, prog)
    IN /\ len <= SegLength0 + KeyStep * KeySteps
       /\ len >= SegLength0 - KeyStep * KeySteps

Next ==
    \/ \E up \in BOOLEAN, down \in BOOLEAN, m \in MousePositions(prog) :
          NearStart(up, down) /\ Input(up, down, m)
    \/ Calc
    \/ Smooth

\* the tick loop, the mouse moving, the length near its initial value
Spec == Init /\ [][Next]_vars

\* the UP key is held only up to MaxUpSteps steps above 300
BelowCap(up, down) ==
    KeyedLength(segLength, up, down, prog) <= SegLength0 + KeyStep * MaxUpSteps

NextKeys ==
    \/ \E up \in BOOLEAN, down \in BOOLEAN :
          BelowCap(up, down) /\ Input(up, down, MouseHome(prog))
    \/ Calc
    \/ Smooth

\* the tick loop, the mouse at rest, the keys free
SpecKeys == Init /\ [][NextKeys]_vars

-----------------------------------------------------------------------------
(* The calculator alone: one call on inputs drawn from bounded sets *)

\* a vertical segment, the same reversed, a horizontal one pushed along y, and
\* a segment whose start equals its end
CalcSegments ==
    {Segment(Vec2(0, 0), Vec2(0, 100), Vec2(1, 0)),
     Segment(Vec2(0, 100), Vec2(0, 0), Vec2(1, 0)),
     Segment(Vec2(0, 0), Vec2(100, 0), Vec2(0, 1)),
     Segment(Vec2(0, 0), Vec2(0, 0), Vec2(1, 0))}

\* vertices across the detection window at mid span, and along the span
CalcVertices ==
    {Vec2(x, 50) : x \in {-31, -30, -25, -18, 0, 20, 599, 600, 601}}
        \cup {Vec2(20, y) : y \in {-1, 0, 100, 101}}

CalcMargins == {0, 30}

CalcRanges == {20, 600}

SeqsUpTo(S, n) == UNION {[1..k -> S] : k \in 0..n}

\* the vertices of f as one polygon, or cut into two (either may be empty)
Splits(f) ==
    {<<f>>} \cup {<<SubSeq(f, 1, k), SubSeq(f, k + 1, Len(f))>> : k \in 0..Len(f)}

\* obstacle lists of at most MaxVerts vertices in all
PolyLists == {<<>>} \cup UNION {Splits(f) : f \in SeqsUpTo(CalcVertices, MaxVerts)}

InitCalc ==
    /\ prog \in Progs
    /\ pc = "calc"
    /\ seg \in CalcSegments
    /\ allWorld \in PolyLists
    /\ margin \in CalcMargins
    /\ detectionRange \in (IF prog = "range" THEN CalcRanges ELSE {0})
    /\ segLength = SegLen(seg)
    /\ staticObstacles = <<>>
    /\ mousePolyTemplate = <<>>
    /\ mousePoly = <<>>
    /\ mouseInit = FALSE
    /\ lastMouse = Vec2(0, 0)
    /\ targetShift = 0
    /\ currentShift = 0
    /\ ticks = 0

\* one call of calculateSegmentShift
SpecCalc == InitCalc /\ [][Calc]_vars

-----------------------------------------------------------------------------
(* The smoothing step alone: repeated under a constant target *)

\* advance(state, target, alpha): line 123 of part_000, line 113 of main.cc,
\* executed again with the same target
Advance ==
    /\ pc = "smooth"
    /\ ticks < MaxTicks
    /\ currentShift' = advance(currentShift, targetShift, prog)
    /\ ticks' = ticks + 1
    /\ UNCHANGED <<prog, pc, segLength, seg, staticObstacles, mousePolyTemplate,
                   mousePoly, mouseInit, lastMouse, allWorld, margin, detectionRange,
                   targetShift>>

InitSmooth ==
    /\ prog \in Progs
    /\ pc = "smooth"
    /\ targetShift \in 1..MaxTarget
    /\ currentShift = 0
    /\ ticks = 0
    /\ segLength = SegLength0
    /\ seg = IdealSegment(prog, SegLength0)
    /\ staticObstacles = <<>>
    /\ mousePolyTemplate = <<>>
    /\ mousePoly = <<>>
    /\ mouseInit = FALSE
    /\ lastMouse = Vec2(0, 0)
    /\ allWorld = <<>>
    /\ margin = MarginOf(prog)
    /\ detectionRange = IF prog = "range" THEN DetectionRange ELSE 0

SpecSmooth == InitSmooth /\ [][Advance]_vars

-----------------------------------------------------------------------------
(* Properties of the calculator (SpecCalc) *)

\* the call has returned, targetShift holds its value
Returned == pc = "smooth"

\* the vertices of all obstacles handed to the calculator
WorldVertices == {allWorld[i][j] : <<i, j>> \in
                    UNION {{<<i, j>> : j \in 1..Len(allWorld[i])} : i \in 1..Len(allWorld)}}

\* number of vertices handed to the calculator
WorldSize == Len(Flatten(allWorld))

\* projection of v on the direction of seg, and its distance along the heading
ProjOf(v) == Dot(VSub(v, seg.start), GetDir(seg))

DistOf(v) == Dot(VSub(v, seg.start), seg.heading)

Longitudinal(v) == 0 <= ProjOf(v) /\ ProjOf(v) <= SegLen(seg)

Lateral(v) == -margin < DistOf(v) /\ DistOf(v) < detectionRange

Passing == {v \in WorldVertices : Longitudinal(v) /\ Lateral(v)}

MaxOf(S) == CHOOSE x \in S : \A y \in S : y <= x

\* C1 (clearance): for a segment of positive length, margin >= 0 and
\* detectionRange > 0, the returned shift is at least dist(V) + margin for every
\* obstacle vertex V that passes the longitudinal and the detection-window gate.
C1_Clearance ==
    (Returned /\ prog = "range" /\ SegLen(seg) > 0 /\ margin >= 0 /\ detectionRange > 0)
        => \A v \in Passing : targetShift >= DistOf(v) + margin

\* a call where two vertices pass and the shift clears one of them with room
C1_Witness ==
    /\ Returned /\ prog = "range" /\ SegLen(seg) > 0
    /\ \E v, w \in Passing : DistOf(v) < DistOf(w) /\ targetShift > DistOf(v) + margin

\* C2 (worst-case selection): the returned shift is exactly the maximum of
\* dist + margin over the vertices that pass both gates, and exactly 0 when no
\* vertex passes (an empty obstacle list, polygons without vertices).
C2_WorstCase ==
    (Returned /\ prog = "range")
        => targetShift = IF Passing = {} THEN 0
                         ELSE MaxOf({DistOf(v) + margin : v \in Passing})

\* two passing vertices with candidates 5 and 12: the result is 12
C2_Witness ==
    /\ Returned /\ prog = "range"
    /\ {DistOf(v) + margin : v \in Passing} = {5, 12}
    /\ targetShift = 12

\* an empty polygon and no other vertex: the result is 0
C2_WitnessEmpty ==
    Returned /\ prog = "range" /\ allWorld = << <<>>, <<>> >> /\ targetShift = 0

\* C3 (longitudinal gate): with a single vertex and a segment of positive
\* length, a vertex whose projection is outside [0, length] gives 0 whatever
\* its distance, and a vertex whose projection is inside, bounds included, and
\* whose distance is in the detection window gives dist + margin.
C3_LongitudinalGate ==
    (Returned /\ WorldSize = 1 /\ SegLen(seg) > 0)
        => \A v \in WorldVertices :
              /\ (ProjOf(v) < 0 \/ ProjOf(v) > SegLen(seg)) => targetShift = 0
              /\ (0 <= ProjOf(v) /\ ProjOf(v) <= SegLen(seg)
                    /\ -margin < DistOf(v)
                    /\ (prog = "range" => DistOf(v) < detectionRange))
                  => targetShift = DistOf(v) + margin

\* a single vertex whose projection is exactly the length, and it is counted
C3_Witness ==
    /\ Returned /\ WorldSize = 1 /\ SegLen(seg) > 0
    /\ \E v \in WorldVertices :
          ProjOf(v) = SegLen(seg) /\ targetShift = DistOf(v) + margin /\ targetShift > 0

\* C4 (detection-window gate): for a single vertex whose projection is in
\* [0, length], the result is dist + margin when -margin < dist <
\* detectionRange, both bounds strict, and 0 otherwise.
C4_WindowGate ==
    (Returned /\ prog = "range" /\ WorldSize = 1 /\ SegLen(seg) > 0)
        => \A v \in WorldVertices :
              Longitudinal(v)
                  => targetShift = IF -margin < DistOf(v) /\ DistOf(v) < detectionRange
                                   THEN DistOf(v) + margin
                                   ELSE 0

\* margin 30 and a vertex 25 behind the ideal line: the shift is 5
C4_Witness ==
    /\ Returned /\ prog = "range" /\ WorldSize = 1 /\ SegLen(seg) > 0
    /\ margin = 30
    /\ \E v \in WorldVertices : Longitudinal(v) /\ DistOf(v) = -25
    /\ targetShift = 5

\* C5 (monotonic margin): for the same segment, obstacles and detectionRange,
\* a margin m2 >= margin >= 0 gives a shift at least the one returned.
C5_MonotonicMargin ==
    (Returned /\ prog = "range" /\ margin >= 0)
        => \A m2 \in CalcMargins :
              m2 >= margin
                  => calculateSegmentShift(seg, allWorld, m2, detectionRange) >= targetShift

\* the larger margin admits a vertex the smaller one excluded
C5_Witness ==
    /\ Returned /\ prog = "range" /\ margin = 0 /\ targetShift = 0
    /\ \E v \in WorldVertices : Longitudinal(v) /\ DistOf(v) = -25
    /\ calculateSegmentShift(seg, allWorld, 30, detectionRange) = 5

\* C8 (zero-length segment): when start equals end, no vertex passes the
\* longitudinal gate and the result is 0 for every obstacle list, margin and
\* detectionRange.
C8_ZeroLengthIsZero ==
    (Returned /\ seg.start = seg.end) => targetShift = 0

-----------------------------------------------------------------------------
(* Properties of the smoothing step (SpecSmooth) *)

\* what is left to the target, in grid points
Gap == targetShift * Scale - currentShift

\* the step (target - current) * alpha rounds to no grid point but the current
\* one: twice the product is below one grid point
Stopped == 2 * AlphaPercent(prog) * Gap < 100

\* C6 (smoothing convergence) as stated: from 0 under the constant target 10,
\* every tick strictly increases the current shift and never takes it above 10.
C6_StrictlyIncreasing ==
    [][targetShift = 10
         => (currentShift' > currentShift /\ currentShift' <= 10 * Scale)]_vars

\* C6 as amended: under a constant target the current shift never decreases
\* and never exceeds the target; a tick strictly increases it exactly while the
\* step is at least half a grid point; within SettleTicks ticks it has stopped,
\* short of the target by less than 1/(2 alpha) grid points.
C6_ConvergesAndStops ==
    /\ [][/\ currentShift' >= currentShift
          /\ currentShift' <= targetShift * Scale
          /\ (currentShift' > currentShift) <=> ~Stopped]_vars
    /\ [](ticks >= SettleTicks => (Stopped /\ Gap >= 0))

\* target 10: the sequence has stopped below the target after rising
C6_Witness ==
    /\ targetShift = 10 /\ ticks > 0 /\ ticks < SettleTicks
    /\ currentShift > 0 /\ Gap > 0 /\ Stopped

-----------------------------------------------------------------------------
(* Properties of the tick loop (Spec, SpecKeys) *)

\* C7 (statelessness): the step that calls the calculator changes only
\* targetShift: not the current shift, the segment, or any obstacle vertex;
\* the current shift changes only in the smoothing step, which each tick
\* takes once; in part_000 the tick leaves the template as it was and hands
\* the calculator a copy of it moved to the mouse.
C7_Frame ==
    [][/\ pc = "calc"
            => /\ pc' = "smooth"
               /\ UNCHANGED <<currentShift, segLength, seg, allWorld, staticObstacles,
                              mousePolyTemplate, mousePoly, margin, detectionRange>>
       /\ currentShift' # currentShift => (pc = "smooth" /\ pc' = "input")
       /\ pc = "smooth" => pc' = "input"
       /\ staticObstacles' = staticObstacles
       /\ prog = "range"
            => /\ mousePolyTemplate' = mousePolyTemplate
               /\ pc = "input"
                    => /\ pc' = "calc"
                       /\ \E m \in MousePositions(prog) :
                             allWorld' = Append(staticObstacles,
                                                Translate(mousePolyTemplate, m))]_vars

\* a second tick has begun: the calculator returned a positive target from a
\* moved copy of the template and the smoothing step has moved the shift
C7_Witness ==
    /\ prog = "range" /\ pc = "calc"
    /\ targetShift > 0 /\ currentShift > 0
    /\ mousePoly # mousePolyTemplate

\* C9 (segment length): from 300 and under any sequence of UP and DOWN keys,
\* the length is never below the minimum (20 in part_000, 10 in main.cc), and
\* the segment handed to the calculator has that positive length.
C9_LengthAtLeastMinimum ==
    /\ segLength >= (IF prog = "range" THEN 20 ELSE 10)
    /\ segLength > 0
    /\ pc # "input" => (SegLen(seg) = segLength /\ seg.start # seg.end)

\* the length has come down to the minimum and the calculator is called on it
C9_Witness ==
    /\ pc = "calc"
    /\ segLength = (IF prog = "range" THEN 20 ELSE 10)
    /\ SegLen(seg) = segLength

\* C10 (bounded shift): in part_000 every value the calculator returns is in
\* [0, detectionRange + margin), and so is the current shift after every tick.
C10_BoundedShift ==
    prog = "range"
        => /\ 0 <= targetShift /\ targetShift < detectionRange + margin
           /\ 0 <= currentShift /\ currentShift < (detectionRange + margin) * Scale

\* a vertex exactly detectionRange ahead was handed to the calculator, and the
\* shift has moved
C10_Witness ==
    /\ prog = "range" /\ pc = "smooth" /\ currentShift > 0
    /\ \E v \in WorldVertices : Longitudinal(v) /\ DistOf(v) = detectionRange

====
